---- MODULE Spec2Model ----
(***************************************************************************)
(* Model of the element / element-list framework of eduid_userdb           *)
(* (src/src/eduid_userdb/element.py): PrimaryElementList with its          *)
(* add / remove / primary operations, and the write-once provenance        *)
(* setters _set_something_by / _set_something_ts; of the events and event  *)
(* lists built on it (event.py, tou.py); and of to_dict / from_dict of the *)
(* concrete element classes (mail.py, nin.py, locked_identity.py,          *)
(* credentials/password.py) with the CredentialList built from field maps. *)
(***************************************************************************)
EXTENDS Integers, Sequences, FiniteSets, TLC

VARIABLES
    elements,       \* PrimaryElementList._elements: the elements of the list, in order
    op,             \* name of the last method called on the list / element
    key,            \* the key argument of the last remove / primary.setter call
    element,        \* the element argument of the last add call, or what the last find returned
    raised,         \* exception the last call raised, "none" if it returned
    old_elements,   \* _elements as it was when the last call started, or the sequence a list is built from
    data,           \* Element._data of one element
    value,          \* the value argument of the last property assignment, or the dict to_dict returned
    old_data,       \* _data as it was when the last assignment started, or of the element to_dict was called on
    clock,          \* what datetime.datetime.utcnow() returns
    event_class,    \* EventList._event_class, "none" for a list that is not an EventList
    cls,            \* the class from_dict is called on, "none" where no classmethod is called
    heap,           \* the element objects and the lists that refer to them, where two lists are followed
    db,             \* a stored document and the in-memory copies loaded from it
    mongo_doc       \* DashboardLegacyUser._mongo_doc

vars == <<elements, op, key, element, raised, old_elements, data, value, old_data, clock,
          event_class, cls, heap, db, mongo_doc>>

otherVars == <<heap, db, mongo_doc>>

listVars == <<elements, op, key, element, raised, old_elements, event_class>>
elemVars == <<data, value, old_data, clock, cls, otherVars>>

\* the variables of the specifications that do not use them
NoHeap == [objects |-> <<>>, source |-> <<>>, derived |-> <<>>, kind |-> "none"]
NoDb == [stored |-> <<>>, copies |-> <<>>]
NoDoc == [mail |-> "", mailAliases |-> <<>>]

OtherInit ==
    /\ heap = NoHeap
    /\ db = NoDb
    /\ mongo_doc = NoDoc

-----------------------------------------------------------------------------
(* Bounds *)

NumKeys == 2        \* number of distinct element keys
MaxLen == 3         \* longest list add() is tried on
MaxClock == 2       \* last tick of the clock
MaxEvents == 2      \* longest sequence an EventList is constructed from
MaxCreds == 2       \* longest sequence a CredentialList is constructed from
MaxView == 2        \* longest list another list is derived from
MaxNew == 1         \* most elements a derived list holds that its source does not

Keys == 1..NumKeys

-----------------------------------------------------------------------------
(* Exceptions *)

NoException == "none"
EduIDUserDBError == "EduIDUserDBError"
UserDBValueError == "UserDBValueError"
DuplicateElementViolation == "DuplicateElementViolation"
PrimaryElementViolation == "PrimaryElementViolation"
BadEvent == "BadEvent"
UserHasUnknownData == "UserHasUnknownData"
EventHasUnknownData == "EventHasUnknownData"
KeyError == "KeyError"
TypeError == "TypeError"
AttributeError == "AttributeError"
DocumentOutOfSync == "DocumentOutOfSync"
UserOutOfSync == "UserOutOfSync"

-----------------------------------------------------------------------------
(* PrimaryElement: key, is_verified, is_primary.  The constructor sets       *)
(* is_verified before is_primary exists, so every combination of the two    *)
(* flags can be constructed.                                                *)

PrimaryElement == [key : Keys, verified : BOOLEAN, primary : BOOLEAN]

\* the False that find() returns when nothing matches
False == [key |-> 0, verified |-> FALSE, primary |-> FALSE]
\* the None that the primary getter returns when there is no primary
None == [key |-> -1, verified |-> FALSE, primary |-> FALSE]

\* all sequences over S of length 0..n
RECURSIVE SeqsUpTo(_, _)
SeqsUpTo(S, n) ==
    IF n = 0 THEN {<<>>}
    ELSE LET shorter == SeqsUpTo(S, n - 1)
         IN shorter \cup {Append(s, x) : s \in {t \in shorter : Len(t) = n - 1}, x \in S}

-----------------------------------------------------------------------------
(* ElementList *)

\* a find that returns the first match when several elements share the key
ElementListFindFirst(elems, k) ==
    LET res == SelectSeq(elems, LAMBDA x : x.key = k)
    IN IF Len(res) >= 1 THEN [raised |-> NoException, result |-> res[1]]
       ELSE [raised |-> NoException, result |-> False]

\* ElementList.find / PrimaryElementList.find
ElementListFind(elems, k) ==
    LET res == SelectSeq(elems, LAMBDA x : x.key = k)
    IN IF Len(res) = 1 THEN [raised |-> NoException, result |-> res[1]]
       ELSE IF Len(res) > 1 THEN [raised |-> EduIDUserDBError, result |-> False]
       ELSE [raised |-> NoException, result |-> False]

\* A list instance: the list objects on the heap and the one self._elements
\* refers to.  Python names are references, so `old_list = self._elements`
\* names the same list object as self._elements does.
NewList(elems) == [heap |-> (0 :> elems), _elements |-> 0]

Contents(self) == self.heap[self._elements]

\* an add that puts the element first
ElementListAddFirst(self, e) ==
    [self EXCEPT !.heap[self._elements] = <<e>> \o @]

\* ElementList.add: self._elements.append(element), in place
ElementListAdd(self, e) ==
    [self EXCEPT !.heap[self._elements] = Append(@, e)]

\* ElementList.remove filtering the list object in place
ElementListRemoveMatchInPlace(self, match) ==
    [self EXCEPT !.heap[self._elements] = SelectSeq(@, LAMBDA this : this # match)]

\* body of ElementList.remove after the match was found: self._elements is
\* bound to a new list, the old list object is left as it was
ElementListRemoveMatch(self, match) ==
    LET fresh == self._elements + 1
    IN [heap |-> (fresh :> SelectSeq(Contents(self), LAMBDA this : this # match)) @@ self.heap,
        _elements |-> fresh]

\* a remove that returns without raising when nothing matches
ElementListRemoveQuiet(self, k) ==
    LET match == ElementListFind(Contents(self), k)
    IN IF match.raised # NoException THEN [raised |-> match.raised, self |-> self]
       ELSE IF match.result = False THEN [raised |-> NoException, self |-> self]
       ELSE [raised |-> NoException, self |-> ElementListRemoveMatch(self, match.result)]

\* ElementList.remove
ElementListRemove(self, k) ==
    LET match == ElementListFind(Contents(self), k)
    IN IF match.raised # NoException THEN [raised |-> match.raised, self |-> self]
       ELSE IF match.result = False THEN [raised |-> UserDBValueError, self |-> self]
       ELSE [raised |-> NoException, self |-> ElementListRemoveMatch(self, match.result)]

-----------------------------------------------------------------------------
(* PrimaryElementList *)

\* a _get_primary that looks for the primary in the whole list
GetPrimaryWholeList(elems) ==
    LET verified == SelectSeq(elems, LAMBDA x : x.verified)
        res == SelectSeq(elems, LAMBDA x : x.primary)
    IN IF Len(elems) = 0 THEN [raised |-> NoException, result |-> None]
       ELSE IF Len(verified) = 0
            THEN IF Len(res) > 0
                 THEN [raised |-> PrimaryElementViolation, result |-> None]
                 ELSE [raised |-> NoException, result |-> None]
       ELSE IF Len(res) # 1
            THEN [raised |-> PrimaryElementViolation, result |-> None]
       ELSE [raised |-> NoException, result |-> res[1]]

\* PrimaryElementList._get_primary
GetPrimary(elems) ==
    LET verified == SelectSeq(elems, LAMBDA x : x.verified)
        res == SelectSeq(verified, LAMBDA x : x.primary)
    IN IF Len(elems) = 0 THEN [raised |-> NoException, result |-> None]
       ELSE IF Len(verified) = 0
            THEN IF Len(SelectSeq(elems, LAMBDA e : e.primary)) > 0
                 THEN [raised |-> PrimaryElementViolation, result |-> None]
                 ELSE [raised |-> NoException, result |-> None]
       ELSE IF Len(res) # 1
            THEN [raised |-> PrimaryElementViolation, result |-> None]
       ELSE [raised |-> NoException, result |-> res[1]]

\* PrimaryElementList._check_primary(old_list): old_list is a reference
CheckPrimary(self, old_list) ==
    IF GetPrimary(Contents(self)).raised = PrimaryElementViolation
    THEN LET fresh == self._elements + 1
         IN [raised |-> PrimaryElementViolation,
             self |-> [heap |-> (fresh :> self.heap[old_list]) @@ self.heap,
                       _elements |-> fresh]]
    ELSE [raised |-> NoException, self |-> self]

\* PrimaryElementList.add
PrimaryElementListAdd(self, e) ==
    LET found == ElementListFind(Contents(self), e.key)
    IN IF found.raised # NoException THEN [raised |-> found.raised, self |-> self]
       ELSE IF found.result # False THEN [raised |-> DuplicateElementViolation, self |-> self]
       ELSE LET old_list == self._elements
            IN CheckPrimary(ElementListAdd(self, e), old_list)

\* PrimaryElementList.remove
PrimaryElementListRemove(self, k) ==
    LET old_list == self._elements
        removed == ElementListRemove(self, k)
    IN IF removed.raised # NoException THEN removed
       ELSE CheckPrimary(removed.self, old_list)

\* a primary setter that marks the match and leaves the other flags alone
MarkPrimaryOnlyMatch(elems, k) ==
    [i \in 1..Len(elems) |-> IF elems[i].key = k THEN [elems[i] EXCEPT !.primary = TRUE]
                             ELSE elems[i]]

\* the loop of the primary setter: every element's is_primary := (key == k)
MarkPrimary(elems, k) ==
    [i \in 1..Len(elems) |-> [elems[i] EXCEPT !.primary = (elems[i].key = k)]]

\* PrimaryElementList.primary (setter)
PrimaryElementListSetPrimary(self, k) ==
    LET match == ElementListFind(Contents(self), k)
    IN IF match.raised # NoException THEN [raised |-> match.raised, self |-> self]
       ELSE IF match.result = False THEN [raised |-> UserDBValueError, self |-> self]
       ELSE IF ~match.result.verified THEN [raised |-> PrimaryElementViolation, self |-> self]
       ELSE [raised |-> NoException,
             self |-> [self EXCEPT !.heap[self._elements] = MarkPrimary(@, k)]]


\* PrimaryElementList.__init__: _get_primary(elements), then ElementList.__init__
PrimaryElementListInit(elems) ==
    LET checked == GetPrimary(elems)
    IN IF checked.raised # NoException THEN [raised |-> checked.raised, self |-> NewList(<<>>)]
       ELSE [raised |-> NoException, self |-> NewList(elems)]

-----------------------------------------------------------------------------
(* Python values of the provenance fields *)

PyNone == [t |-> "NoneType", s |-> "", n |-> 0]
PyStr(s) == [t |-> "str", s |-> s, n |-> 0]
PyInt(n) == [t |-> "int", s |-> "", n |-> n]
PyBool(b) == [t |-> "bool", s |-> "", n |-> IF b THEN 1 ELSE 0]
PyDatetime(n) == [t |-> "datetime", s |-> "", n |-> n]
PyObjectId(n) == [t |-> "ObjectId", s |-> "", n |-> n]

\* values assigned to created_by / verified_by
ByValues == {PyNone, PyStr("dashboard"), PyStr("signup"), PyInt(1)}
\* values assigned to created_ts / verified_ts
TsValues == {PyNone, PyBool(TRUE), PyBool(FALSE)} \cup {PyDatetime(n) : n \in 0..MaxClock}

\* Element._data right after `self._data = {}`: data.get(key) is None
EmptyData == [created_by |-> PyNone, created_ts |-> PyNone,
              verified_by |-> PyNone, verified_ts |-> PyNone,
              verified |-> PyNone, primary |-> PyNone]

\* values assigned to is_verified / is_primary
BoolValues == {PyBool(TRUE), PyBool(FALSE), PyInt(1), PyNone}

\* PrimaryElement.is_primary (getter): False while _data has no 'primary'
PrimaryElementIsPrimary(d) ==
    IF d.primary = PyNone THEN FALSE ELSE d.primary = PyBool(TRUE)

\* VerifiedElement.is_verified (setter)
VerifiedElementSetIsVerified(d, v) ==
    IF v.t # "bool" THEN [raised |-> UserDBValueError, data |-> d]
    ELSE [raised |-> NoException, data |-> [d EXCEPT !.verified = v]]

\* PrimaryElement.is_verified (setter)
PrimaryElementSetIsVerified(d, v) ==
    IF v = PyBool(FALSE) /\ PrimaryElementIsPrimary(d)
    THEN [raised |-> PrimaryElementViolation, data |-> d]
    ELSE VerifiedElementSetIsVerified(d, v)

\* PrimaryElement.is_primary (setter)
PrimaryElementSetIsPrimary(d, v) ==
    IF v.t # "bool" THEN [raised |-> UserDBValueError, data |-> d]
    ELSE [raised |-> NoException, data |-> [d EXCEPT !.primary = v]]

\* _set_something_by guarding on value equality instead of write-once
SetSomethingByIfDiffers(d, k, v, allow_update) ==
    IF d[k] # PyNone /\ ~allow_update /\ v # d[k] THEN [raised |-> UserDBValueError, data |-> d]
    ELSE IF v = PyNone THEN [raised |-> NoException, data |-> d]
    ELSE IF v.t # "str" THEN [raised |-> UserDBValueError, data |-> d]
    ELSE [raised |-> NoException, data |-> [d EXCEPT ![k] = v]]

\* _set_something_by returning on None before the write-once guard
SetSomethingByNoneFirst(d, k, v, allow_update) ==
    IF v = PyNone THEN [raised |-> NoException, data |-> d]
    ELSE IF d[k] # PyNone /\ ~allow_update THEN [raised |-> UserDBValueError, data |-> d]
    ELSE IF v.t # "str" THEN [raised |-> UserDBValueError, data |-> d]
    ELSE [raised |-> NoException, data |-> [d EXCEPT ![k] = v]]

\* _set_something_by(data, key, value, allow_update)
SetSomethingBy(d, k, v, allow_update) ==
    IF d[k] # PyNone /\ ~allow_update THEN [raised |-> UserDBValueError, data |-> d]
    ELSE IF v = PyNone THEN [raised |-> NoException, data |-> d]
    ELSE IF v.t # "str" THEN [raised |-> UserDBValueError, data |-> d]
    ELSE [raised |-> NoException, data |-> [d EXCEPT ![k] = v]]

\* _set_something_ts returning on None before the write-once guard
SetSomethingTsNoneFirst(d, k, v, allow_update, now) ==
    LET val == IF v = PyBool(TRUE) THEN PyDatetime(now) ELSE v
    IN IF v = PyNone THEN [raised |-> NoException, data |-> d]
       ELSE IF d[k] # PyNone /\ ~allow_update THEN [raised |-> UserDBValueError, data |-> d]
       ELSE IF val.t # "datetime" THEN [raised |-> UserDBValueError, data |-> d]
       ELSE [raised |-> NoException, data |-> [d EXCEPT ![k] = val]]

\* _set_something_ts(data, key, value, allow_update); now is utcnow()
SetSomethingTs(d, k, v, allow_update, now) ==
    LET val == IF v = PyBool(TRUE) THEN PyDatetime(now) ELSE v
    IN IF d[k] # PyNone /\ ~allow_update THEN [raised |-> UserDBValueError, data |-> d]
       ELSE IF v = PyNone THEN [raised |-> NoException, data |-> d]
       ELSE IF val.t # "datetime" THEN [raised |-> UserDBValueError, data |-> d]
       ELSE [raised |-> NoException, data |-> [d EXCEPT ![k] = val]]

\* the property setters of Element and VerifiedElement
AssignProperty(d, name, v, now) ==
    CASE name = "created_by" -> SetSomethingBy(d, "created_by", v, FALSE)
      [] name = "created_ts" -> SetSomethingTs(d, "created_ts", v, FALSE, now)
      [] name = "verified_by" -> SetSomethingBy(d, "verified_by", v, TRUE)
      [] name = "verified_ts" -> SetSomethingTs(d, "verified_ts", v, TRUE, now)
      [] name = "is_verified" -> PrimaryElementSetIsVerified(d, v)
      [] name = "is_primary" -> PrimaryElementSetIsPrimary(d, v)

\* PrimaryElement.__init__: Element.__init__ sets created_by, created_ts;
\* VerifiedElement.__init__ sets is_verified, verified_by, verified_ts;
\* PrimaryElement.__init__ sets is_primary.  The first assignment that
\* raises ends the construction.
RECURSIVE AssignAll(_, _, _)
AssignAll(d, assignments, now) ==
    IF assignments = <<>> THEN [raised |-> NoException, data |-> d]
    ELSE LET res == AssignProperty(d, Head(assignments)[1], Head(assignments)[2], now)
         IN IF res.raised # NoException THEN res
            ELSE AssignAll(res.data, Tail(assignments), now)

ElementInit(created_by, created_ts, verified, verified_by, verified_ts, primary, now) ==
    AssignAll(EmptyData,
              << <<"created_by", created_by>>, <<"created_ts", created_ts>>,
                 <<"is_verified", verified>>,
                 <<"verified_by", verified_by>>, <<"verified_ts", verified_ts>>,
                 <<"is_primary", primary>> >>,
              now)

-----------------------------------------------------------------------------
(* Specification of one PrimaryElementList *)

Init ==
    /\ elements \in {s \in SeqsUpTo(PrimaryElement, MaxLen) :
                        PrimaryElementListInit(s).raised = NoException}
    /\ op = "__init__"
    /\ key = 0
    /\ element = False
    /\ raised = NoException
    /\ old_elements = elements
    /\ data = EmptyData
    /\ value = PyNone
    /\ old_data = EmptyData
    /\ clock = 0
    /\ event_class = "none"
    /\ cls = "none"
    /\ OtherInit

Add(e) ==
    /\ Len(elements) < MaxLen
    /\ LET res == PrimaryElementListAdd(NewList(elements), e)
       IN /\ elements' = Contents(res.self)
          /\ raised' = res.raised
    /\ op' = "add"
    /\ key' = e.key
    /\ element' = e
    /\ old_elements' = elements
    /\ UNCHANGED <<event_class, elemVars>>

Remove(k) ==
    /\ LET res == PrimaryElementListRemove(NewList(elements), k)
       IN /\ elements' = Contents(res.self)
          /\ raised' = res.raised
    /\ op' = "remove"
    /\ key' = k
    /\ element' = False
    /\ old_elements' = elements
    /\ UNCHANGED <<event_class, elemVars>>

SetPrimary(k) ==
    /\ LET res == PrimaryElementListSetPrimary(NewList(elements), k)
       IN /\ elements' = Contents(res.self)
          /\ raised' = res.raised
    /\ op' = "primary"
    /\ key' = k
    /\ element' = False
    /\ old_elements' = elements
    /\ UNCHANGED <<event_class, elemVars>>

Find(k) ==
    /\ LET res == ElementListFind(elements, k)
       IN /\ element' = res.result
          /\ raised' = res.raised
    /\ op' = "find"
    /\ key' = k
    /\ old_elements' = elements
    /\ UNCHANGED <<elements, event_class, elemVars>>

Next ==
    \/ \E e \in PrimaryElement : Add(e)
    \/ \E k \in Keys : Remove(k)
    \/ \E k \in Keys : SetPrimary(k)
    \/ \E k \in Keys : Find(k)

Spec == Init /\ [][Next]_vars

-----------------------------------------------------------------------------
(* Specification of the construction of a PrimaryElementList from a sequence *)

CtorInit ==
    /\ old_elements \in SeqsUpTo(PrimaryElement, MaxLen)
    /\ elements = <<>>
    /\ op = "input"
    /\ key = 0
    /\ element = False
    /\ raised = NoException
    /\ data = EmptyData
    /\ value = PyNone
    /\ old_data = EmptyData
    /\ clock = 0
    /\ event_class = "none"
    /\ cls = "none"
    /\ OtherInit

\* PrimaryElementList(old_elements)
Construct ==
    /\ op = "input"
    /\ LET res == PrimaryElementListInit(old_elements)
       IN /\ elements' = Contents(res.self)
          /\ raised' = res.raised
    /\ op' = "__init__"
    /\ UNCHANGED <<key, element, old_elements, event_class, elemVars>>

CtorNext == Construct

CtorSpec == CtorInit /\ [][CtorNext]_vars

-----------------------------------------------------------------------------
(* Specification of the provenance fields of one element *)

ElemInit ==
    /\ clock = 0
    /\ \E cb \in ByValues, cts \in TsValues, v \in BoolValues,
          vb \in ByValues, vts \in TsValues, p \in BoolValues :
          /\ ElementInit(cb, cts, v, vb, vts, p, clock).raised = NoException
          /\ data = ElementInit(cb, cts, v, vb, vts, p, clock).data
    /\ old_data = data
    /\ value = PyNone
    /\ op = "__init__"
    /\ raised = NoException
    /\ elements = <<>>
    /\ old_elements = <<>>
    /\ key = 0
    /\ element = False
    /\ event_class = "none"
    /\ cls = "none"
    /\ OtherInit

Assign(name, v) ==
    /\ LET res == AssignProperty(data, name, v, clock)
       IN /\ data' = res.data
          /\ raised' = res.raised
    /\ op' = name
    /\ value' = v
    /\ old_data' = data
    /\ UNCHANGED <<clock, elements, key, element, old_elements, event_class, cls, otherVars>>

SetCreatedBy == \E v \in ByValues : Assign("created_by", v)
SetCreatedTs == \E v \in TsValues : Assign("created_ts", v)
SetVerifiedBy == \E v \in ByValues : Assign("verified_by", v)
SetVerifiedTs == \E v \in TsValues : Assign("verified_ts", v)
SetIsVerified == \E v \in BoolValues : Assign("is_verified", v)
SetIsPrimary == \E v \in BoolValues : Assign("is_primary", v)

\* time passes between two calls
Tick ==
    /\ clock < MaxClock
    /\ clock' = clock + 1
    /\ UNCHANGED <<data, value, old_data, cls, otherVars, listVars>>

ElemNext ==
    \/ SetCreatedBy
    \/ SetCreatedTs
    \/ SetVerifiedBy
    \/ SetVerifiedTs
    \/ SetIsVerified
    \/ SetIsPrimary
    \/ Tick

ElemSpec == ElemInit /\ [][ElemNext]_vars

-----------------------------------------------------------------------------
(* Events (event.py, tou.py) *)

\* Event._data right after `self._data = {}`; PyNone stands for a key that
\* is not in the dict (no setter ever stores None)
EmptyEventData == [created_by |-> PyNone, created_ts |-> PyNone,
                   event_type |-> PyNone, event_id |-> PyNone, version |-> PyNone]

\* str.lower() on the strings drawn
Lower(s) == IF s = "Other" THEN "other"
            ELSE IF s = "Ft@Example" THEN "ft@example"
            ELSE s

\* Event.event_type (setter)
EventSetEventType(d, v) ==
    IF v = PyNone THEN [raised |-> NoException, data |-> d]
    ELSE IF v.t # "str" THEN [raised |-> UserDBValueError, data |-> d]
    ELSE [raised |-> NoException, data |-> [d EXCEPT !.event_type = PyStr(Lower(v.s))]]

\* Event.event_id (setter)
EventSetEventId(d, v) ==
    IF v.t # "ObjectId" THEN [raised |-> UserDBValueError, data |-> d]
    ELSE [raised |-> NoException, data |-> [d EXCEPT !.event_id = v]]

\* ToUEvent.version (setter)
ToUEventSetVersion(d, v) ==
    IF v.t # "str" THEN [raised |-> BadEvent, data |-> d]
    ELSE [raised |-> NoException, data |-> [d EXCEPT !.version = v]]

\* Event.__init__
EventInit(created_by, created_ts, event_type, event_id, now) ==
    LET r1 == SetSomethingBy(EmptyEventData, "created_by", created_by, FALSE)
        r2 == SetSomethingTs(r1.data, "created_ts", created_ts, FALSE, now)
        r3 == EventSetEventType(r2.data, event_type)
        r4 == EventSetEventId(r3.data, event_id)
    IN IF r1.raised # NoException THEN r1
       ELSE IF r2.raised # NoException THEN r2
       ELSE IF r3.raised # NoException THEN r3
       ELSE r4

\* ToUEvent.__init__
ToUEventInit(version, created_by, created_ts, event_id, now) ==
    IF created_ts = PyNone THEN [raised |-> BadEvent, data |-> EmptyEventData]
    ELSE LET res == EventInit(created_by, created_ts, PyStr("tou_event"), event_id, now)
         IN IF res.raised # NoException THEN res
            ELSE ToUEventSetVersion(res.data, version)

\* Event.key
EventKey(e) == e.data.event_id

\* Event.to_dict(mixed_format)
EventToDict(d, mixed_format) ==
    IF ~mixed_format /\ d.event_type # PyNone THEN [d EXCEPT !.event_type = PyNone] ELSE d

\* isinstance(event, event_class): ToUEvent is a subclass of Event
IsInstance(c, class) == c = class \/ class = "Event"

\* argument values of the event constructors
EventByValues == {PyNone, PyStr("signup")}
EventTsValues == {PyNone, PyBool(TRUE)}
EventTypeValues == {PyNone, PyStr("tou_event"), PyStr("Other"), PyInt(1)}
EventIdValues == {PyNone} \cup {PyObjectId(k) : k \in Keys}
VersionValues == {PyStr("2014-v1"), PyStr("2016-v1"), PyInt(1)}

\* the Event and ToUEvent instances that can be constructed at time 0
EventObjects ==
    {[cls |-> "Event", data |-> EventInit(cb, PyBool(TRUE), et, id, 0).data] :
        <<cb, et, id>> \in {x \in EventByValues \X EventTypeValues \X EventIdValues :
            EventInit(x[1], PyBool(TRUE), x[2], x[3], 0).raised = NoException}}
    \cup
    {[cls |-> "ToUEvent", data |-> ToUEventInit(v, cb, ts, id, 0).data] :
        <<v, cb, ts, id>> \in
            {x \in VersionValues \X EventByValues \X EventTsValues \X EventIdValues :
                ToUEventInit(x[1], x[2], x[3], x[4], 0).raised = NoException}}

\* ElementList.find on a list of events
EventListFind(elems, k) ==
    LET res == SelectSeq(elems, LAMBDA x : EventKey(x) = k)
    IN IF Len(res) = 1 THEN [raised |-> NoException, found |-> TRUE, result |-> res[1]]
       ELSE IF Len(res) > 1 THEN [raised |-> EduIDUserDBError, found |-> FALSE, result |-> False]
       ELSE [raised |-> NoException, found |-> FALSE, result |-> False]

\* EventList.add
EventListAdd(elems, class, event) ==
    IF ~IsInstance(event.cls, class)
    THEN [raised |-> UserDBValueError, elements |-> elems]
    ELSE LET existing == EventListFind(elems, EventKey(event))
         IN IF existing.raised # NoException
            THEN [raised |-> existing.raised, elements |-> elems]
            ELSE IF existing.found
            THEN IF EventToDict(event.data, FALSE) = EventToDict(existing.result.data, FALSE)
                 THEN [raised |-> NoException, elements |-> elems]
                 ELSE [raised |-> DuplicateElementViolation, elements |-> elems]
            ELSE [raised |-> NoException, elements |-> Append(elems, event)]

\* EventList.__init__ on a list of Event instances: every one goes through
\* add; an instance of another class is 'Bad event data'
RECURSIVE EventListInitFrom(_, _, _)
EventListInitFrom(elems, class, events) ==
    IF events = <<>> THEN [raised |-> NoException, elements |-> elems]
    ELSE IF ~IsInstance(Head(events).cls, class)
    THEN [raised |-> UserDBValueError, elements |-> elems]
    ELSE LET res == EventListAdd(elems, class, Head(events))
         IN IF res.raised # NoException THEN res
            ELSE EventListInitFrom(res.elements, class, Tail(events))

EventListInit(events, class) == EventListInitFrom(<<>>, class, events)

-----------------------------------------------------------------------------
(* Specification of one EventList *)

EvInit ==
    /\ event_class \in {"Event", "ToUEvent"}
    /\ \E events \in SeqsUpTo(EventObjects, MaxEvents) :
          /\ EventListInit(events, event_class).raised = NoException
          /\ elements = EventListInit(events, event_class).elements
    /\ old_elements = elements
    /\ op = "__init__"
    /\ key = 0
    /\ element = False
    /\ raised = NoException
    /\ data = EmptyData
    /\ value = PyNone
    /\ old_data = EmptyData
    /\ clock = 0
    /\ cls = "none"
    /\ OtherInit

\* EventList.add(e)
EvAdd(e) ==
    /\ LET res == EventListAdd(elements, event_class, e)
       IN /\ elements' = res.elements
          /\ raised' = res.raised
    /\ op' = "add"
    /\ key' = EventKey(e).n
    /\ element' = e
    /\ old_elements' = elements
    /\ UNCHANGED <<event_class, elemVars>>

EvNext == \E e \in EventObjects : EvAdd(e)

EvSpec == EvInit /\ [][EvNext]_vars

-----------------------------------------------------------------------------
(* Field maps: to_dict / from_dict of the concrete element classes *)

\* every key a field map of the modelled classes can hold; "foo" is a key
\* no class knows
FieldNames == {"created_by", "created_ts", "verified", "primary", "verified_by",
               "verified_ts", "email", "number", "credential_id", "salt",
               "event_type", "event_id", "version", "identity_type", "foo"}

\* the empty dict: PyNone stands for a key that is not in the dict
EmptyDict == [f \in FieldNames |-> PyNone]

\* the dict d over all of FieldNames
Dict(d) == [f \in FieldNames |-> IF f \in DOMAIN d THEN d[f] ELSE PyNone]

\* data.keys()
DictKeys(d) == {f \in FieldNames : d[f] # PyNone}

\* _leftovers = [x for x in data.keys() if x not in _known_data]
Leftovers(d, known_data) == DictKeys(d) \ known_data

\* a call that raised: there is no instance
NoElement(exception) == [raised |-> exception, data |-> EmptyDict]

\* the result of a constructor whose last statement gave res
Constructed(res) == IF res.raised # NoException THEN NoElement(res.raised) ELSE res

\* MailAddress.email (setter)
MailAddressSetEmail(d, v) ==
    IF v.t # "str" THEN [raised |-> UserDBValueError, data |-> d]
    ELSE [raised |-> NoException, data |-> [d EXCEPT !.email = PyStr(Lower(v.s))]]

\* MailAddress.__init__
MailAddressInit(email, created_by, created_ts, verified, verified_by, verified_ts, primary, now) ==
    LET res == ElementInit(created_by, created_ts, verified, verified_by, verified_ts,
                           primary, now)
    IN IF res.raised # NoException THEN NoElement(res.raised)
       ELSE Constructed(MailAddressSetEmail(Dict(res.data), email))

MailAddressKnownData == {"email", "created_by", "created_ts", "verified", "primary"}

\* a MailAddress.from_dict that reads 'verified' with data.get('verified', False)
MailAddressFromDictGet(d, now) ==
    IF Leftovers(d, MailAddressKnownData) # {} THEN NoElement(UserHasUnknownData)
    ELSE IF d.email = PyNone THEN NoElement(KeyError)
    ELSE MailAddressInit(d.email, d.created_by, d.created_ts,
                         IF d.verified = PyNone THEN PyBool(FALSE) ELSE d.verified,
                         PyNone, PyNone,
                         IF d.primary = PyNone THEN PyBool(FALSE) ELSE d.primary, now)

\* MailAddress.from_dict
MailAddressFromDict(d, now) ==
    IF Leftovers(d, MailAddressKnownData) # {} THEN NoElement(UserHasUnknownData)
    ELSE IF d.email = PyNone THEN NoElement(KeyError)
    ELSE IF d.verified = PyNone THEN NoElement(KeyError)
    ELSE MailAddressInit(d.email, d.created_by, d.created_ts, d.verified, PyNone, PyNone,
                         IF d.primary = PyNone THEN PyBool(FALSE) ELSE d.primary, now)

\* Nin.number (setter)
NinSetNumber(d, v) ==
    IF v.t # "str" THEN [raised |-> UserDBValueError, data |-> d]
    ELSE [raised |-> NoException, data |-> [d EXCEPT !.number = PyStr(Lower(v.s))]]

\* Nin.__init__
NinInit(number, created_by, created_ts, verified, primary, now) ==
    LET res == ElementInit(created_by, created_ts, verified, PyNone, PyNone, primary, now)
    IN IF res.raised # NoException THEN NoElement(res.raised)
       ELSE Constructed(NinSetNumber(Dict(res.data), number))

NinKnownData == {"number", "created_by", "created_ts", "verified", "primary"}

\* Nin.from_dict
NinFromDict(d, now) ==
    IF Leftovers(d, NinKnownData) # {} THEN NoElement(UserHasUnknownData)
    ELSE IF d.number = PyNone THEN NoElement(KeyError)
    ELSE IF d.verified = PyNone THEN NoElement(KeyError)
    ELSE NinInit(d.number, d.created_by, d.created_ts, d.verified,
                 IF d.primary = PyNone THEN PyBool(FALSE) ELSE d.primary, now)

\* Password.__init__: super().__init__(created_by=..., ...) reaches
\* Credential.__init__(self, data), which takes no keyword but data
PasswordInit(credential_id, salt, created_by, created_ts, now) == NoElement(TypeError)

PasswordKnownData == {"credential_id", "salt", "created_by", "created_ts"}

\* Password.from_dict
PasswordFromDict(d, now) ==
    IF Leftovers(d, PasswordKnownData) # {} THEN NoElement(UserHasUnknownData)
    ELSE IF d.credential_id = PyNone THEN NoElement(KeyError)
    ELSE IF d.salt = PyNone THEN NoElement(KeyError)
    ELSE PasswordInit(d.credential_id, d.salt, d.created_by, d.created_ts, now)

EventKnownData == {"created_by", "created_ts", "event_id", "event_type"}

\* Event.from_dict
EventFromDict(d, now) ==
    IF Leftovers(d, EventKnownData) # {} THEN NoElement(EventHasUnknownData)
    ELSE IF d.event_id = PyNone THEN NoElement(KeyError)
    ELSE IF d.event_type = PyNone THEN NoElement(KeyError)
    ELSE LET res == EventInit(d.created_by, d.created_ts, d.event_type, d.event_id, now)
         IN IF res.raised # NoException THEN NoElement(res.raised)
            ELSE [raised |-> NoException, data |-> Dict(res.data)]

ToUEventKnownData == {"created_by", "created_ts", "event_id", "version", "event_type"}

\* ToUEvent.from_dict
ToUEventFromDict(d, now) ==
    IF Leftovers(d, ToUEventKnownData) # {} THEN NoElement(EventHasUnknownData)
    ELSE IF d.event_type = PyNone THEN NoElement(KeyError)
    ELSE IF d.event_type # PyStr("tou_event") THEN NoElement(BadEvent)
    ELSE IF d.event_id = PyNone THEN NoElement(KeyError)
    ELSE IF d.version = PyNone THEN NoElement(KeyError)
    ELSE LET res == ToUEventInit(d.version, d.created_by, d.created_ts, d.event_id, now)
         IN IF res.raised # NoException THEN NoElement(res.raised)
            ELSE [raised |-> NoException, data |-> Dict(res.data)]

\* LockedIdentityElement.identity_type (setter)
LockedIdentitySetIdentityType(d, v) ==
    IF v.t # "str" THEN [raised |-> UserDBValueError, data |-> d]
    ELSE [raised |-> NoException, data |-> [d EXCEPT !.identity_type = v]]

\* LockedIdentityNin.number (setter)
LockedIdentityNinSetNumber(d, v) ==
    IF v.t # "str" THEN [raised |-> UserDBValueError, data |-> d]
    ELSE [raised |-> NoException, data |-> [d EXCEPT !.number = v]]

\* LockedIdentityNin.__init__, through LockedIdentityElement.__init__ with
\* identity_type='nin'
LockedIdentityNinInit(number, created_by, created_ts, now) ==
    LET r1 == SetSomethingBy(EmptyDict, "created_by", created_by, FALSE)
        r2 == SetSomethingTs(r1.data, "created_ts", created_ts, FALSE, now)
        r3 == LockedIdentitySetIdentityType(r2.data, PyStr("nin"))
        r4 == LockedIdentityNinSetNumber(r3.data, number)
    IN IF r1.raised # NoException THEN NoElement(r1.raised)
       ELSE IF r2.raised # NoException THEN NoElement(r2.raised)
       ELSE IF r3.raised # NoException THEN NoElement(r3.raised)
       ELSE Constructed(r4)

LockedIdentityNinKnownData == {"number", "created_by", "created_ts"}

\* LockedIdentityNin.from_dict
LockedIdentityNinFromDict(d, now) ==
    IF Leftovers(d, LockedIdentityNinKnownData) # {} THEN NoElement(UserHasUnknownData)
    ELSE IF d.number = PyNone THEN NoElement(KeyError)
    ELSE LockedIdentityNinInit(d.number, d.created_by, d.created_ts, now)

\* the concrete element classes modelled
Classes == {"MailAddress", "Nin", "Password", "Event", "ToUEvent", "LockedIdentityNin"}

\* c.from_dict(d)
FromDictOf(c, d, now) ==
    CASE c = "MailAddress" -> MailAddressFromDict(d, now)
      [] c = "Nin" -> NinFromDict(d, now)
      [] c = "Password" -> PasswordFromDict(d, now)
      [] c = "Event" -> EventFromDict(d, now)
      [] c = "ToUEvent" -> ToUEventFromDict(d, now)
      [] c = "LockedIdentityNin" -> LockedIdentityNinFromDict(d, now)

\* x.to_dict() for an instance x of class c with x._data = d: MailAddress and
\* Nin return _data, Event and ToUEvent drop the event_type, and
\* LockedIdentityNin has Element.to_dict, a copy of _data
ToDictOf(c, d) ==
    CASE c \in {"MailAddress", "Nin"} -> d
      [] c \in {"Event", "ToUEvent"} -> EventToDict(d, FALSE)
      [] OTHER -> d

\* whether the map x.to_dict() returns is x._data itself: MailAddress and Nin
\* 'return self._data', the other classes return copy.copy(self._data)
ToDictReturnsData(c) == c \in {"MailAddress", "Nin"}

\* _known_data of class c
KnownData(c) ==
    CASE c = "MailAddress" -> MailAddressKnownData
      [] c = "Nin" -> NinKnownData
      [] c = "Password" -> PasswordKnownData
      [] c = "Event" -> EventKnownData
      [] c = "ToUEvent" -> ToUEventKnownData
      [] c = "LockedIdentityNin" -> LockedIdentityNinKnownData

\* the keys from_dict of class c reads with data[...]
RequiredData(c) ==
    CASE c = "MailAddress" -> {"email", "verified"}
      [] c = "Nin" -> {"number", "verified"}
      [] c = "Password" -> {"credential_id", "salt"}
      [] c = "Event" -> {"event_id", "event_type"}
      [] c = "ToUEvent" -> {"event_type", "event_id", "version"}
      [] c = "LockedIdentityNin" -> {"number"}

\* the error from_dict of class c raises for unknown data
UnknownDataError(c) ==
    IF c \in {"Event", "ToUEvent"} THEN EventHasUnknownData ELSE UserHasUnknownData

\* argument values of the constructors
FlagValues == {PyBool(TRUE), PyBool(FALSE)}
EmailValues == {PyStr("Ft@Example"), PyInt(1)}
NumberValues == {PyStr("197801011234"), PyInt(1)}

\* the results of the constructor calls of class c at time now
Constructions(c, now) ==
    CASE c = "MailAddress" ->
            {MailAddressInit(x[1], x[2], x[3], x[4], x[5], x[6], x[7], now) :
                x \in EmailValues \X EventByValues \X EventTsValues \X FlagValues
                      \X EventByValues \X EventTsValues \X FlagValues}
      [] c = "Nin" ->
            {NinInit(x[1], x[2], x[3], x[4], x[5], now) :
                x \in NumberValues \X EventByValues \X EventTsValues \X FlagValues
                      \X FlagValues}
      [] c = "Password" ->
            {PasswordInit(x[1], x[2], x[3], x[4], now) :
                x \in NumberValues \X NumberValues \X EventByValues \X EventTsValues}
      [] c = "Event" ->
            {Constructed([raised |-> EventInit(x[1], x[2], x[3], x[4], now).raised,
                          data |-> Dict(EventInit(x[1], x[2], x[3], x[4], now).data)]) :
                x \in EventByValues \X EventTsValues \X EventTypeValues \X EventIdValues}
      [] c = "ToUEvent" ->
            {Constructed([raised |-> ToUEventInit(x[1], x[2], x[3], x[4], now).raised,
                          data |-> Dict(ToUEventInit(x[1], x[2], x[3], x[4], now).data)]) :
                x \in VersionValues \X EventByValues \X EventTsValues \X EventIdValues}
      [] c = "LockedIdentityNin" ->
            {LockedIdentityNinInit(x[1], x[2], x[3], now) :
                x \in NumberValues \X EventByValues \X EventTsValues}

\* the values a field map handed to from_dict holds under key f
FieldValues(f) ==
    CASE f \in {"created_by", "verified_by"} -> {PyStr("signup")}
      [] f \in {"created_ts", "verified_ts"} -> {PyDatetime(0)}
      [] f \in {"verified", "primary"} -> FlagValues
      [] f = "email" -> {PyStr("ft@example")}
      [] f \in {"number", "credential_id"} -> {PyStr("197801011234")}
      [] f = "salt" -> {PyStr("$NDNv1H1$")}
      [] f = "event_type" -> {PyStr("tou_event"), PyStr("other")}
      [] f = "event_id" -> {PyObjectId(1)}
      [] f = "version" -> {PyStr("2014-v1")}
      [] f = "identity_type" -> {PyStr("nin")}
      [] f = "foo" -> {PyStr("bar")}

\* the field maps whose keys are among fields
RECURSIVE DictsOver(_)
DictsOver(fields) ==
    IF fields = {} THEN {EmptyDict}
    ELSE LET f == CHOOSE f \in fields : TRUE
         IN {[d EXCEPT ![f] = v] : d \in DictsOver(fields \ {f}),
                                    v \in {PyNone} \cup FieldValues(f)}

-----------------------------------------------------------------------------
(* Specification of to_dict / from_dict of one element class *)

DictInit ==
    /\ cls \in Classes
    /\ OtherInit
    /\ op = "class"
    /\ data = EmptyDict
    /\ value = EmptyDict
    /\ old_data = EmptyDict
    /\ raised = NoException
    /\ clock = 0
    /\ elements = <<>>
    /\ old_elements = <<>>
    /\ key = 0
    /\ element = False
    /\ event_class = "none"

\* x = cls(...)
New ==
    /\ op = "class"
    /\ \E res \in Constructions(cls, clock) :
          /\ data' = res.data
          /\ raised' = res.raised
    /\ op' = "__init__"
    /\ UNCHANGED <<value, old_data, clock, cls, otherVars, elements, key, element, old_elements,
                   event_class>>

\* value = x.to_dict()
ToDict ==
    /\ op = "__init__"
    /\ raised = NoException
    /\ value' = ToDictOf(cls, data)
    /\ old_data' = data
    /\ op' = "to_dict"
    /\ UNCHANGED <<data, raised, clock, cls, otherVars, elements, key, element, old_elements, event_class>>

\* cls.from_dict(x.to_dict())
FromDict ==
    /\ op = "to_dict"
    /\ LET res == FromDictOf(cls, value, clock)
       IN /\ data' = res.data
          /\ raised' = res.raised
    /\ op' = "from_dict"
    /\ UNCHANGED <<value, old_data, clock, cls, otherVars, elements, key, element, old_elements,
                   event_class>>

\* cls.from_dict(d) for a field map d
Parse ==
    /\ op = "class"
    /\ \E d \in DictsOver(KnownData(cls) \cup {"foo"}) :
          /\ value' = d
          /\ LET res == FromDictOf(cls, d, clock)
             IN /\ data' = res.data
                /\ raised' = res.raised
    /\ op' = "parse"
    /\ UNCHANGED <<old_data, clock, cls, otherVars, elements, key, element, old_elements, event_class>>

\* d = x.to_dict(); d[f] = v, or del d[f] for v = None: a map that is
\* x._data changes x with it
Mutate ==
    /\ op = "to_dict"
    /\ \E f \in KnownData(cls) \cup {"foo"} : \E v \in {PyNone} \cup FieldValues(f) :
          /\ value[f] # v
          /\ value' = [value EXCEPT ![f] = v]
          /\ data' = IF ToDictReturnsData(cls) THEN value' ELSE data
    /\ old_data' = data
    /\ op' = "mutate"
    /\ UNCHANGED <<raised, clock, cls, otherVars, elements, key, element, old_elements,
                   event_class>>

DictNext ==
    \/ New
    \/ ToDict
    \/ FromDict
    \/ Parse
    \/ Mutate

DictSpec == DictInit /\ [][DictNext]_vars

-----------------------------------------------------------------------------
(* Specification of the construction of a CredentialList from field maps *)

\* password_from_dict(data, raise_on_unknown), which credentials/list.py
\* imports from credentials/password.py: the making of a Password from its
\* field map
password_from_dict(d, raise_on_unknown, now) == PasswordFromDict(d, now)

\* CredentialList.__init__(creds) on a list of field maps: a map with a
\* 'salt' is a password, any other map is unknown credential data
RECURSIVE CredentialListInitFrom(_, _, _)
CredentialListInitFrom(elems, creds, now) ==
    IF creds = <<>> THEN [raised |-> NoException, elements |-> elems]
    ELSE IF Head(creds).salt # PyNone
    THEN LET credential == password_from_dict(Head(creds), TRUE, now)
         IN IF credential.raised # NoException
            THEN [raised |-> credential.raised, elements |-> <<>>]
            ELSE CredentialListInitFrom(Append(elems, credential.data), Tail(creds), now)
    ELSE [raised |-> UserHasUnknownData, elements |-> <<>>]

CredentialListInit(creds, now) == CredentialListInitFrom(<<>>, creds, now)

\* ElementList.to_list_of_dicts
ToListOfDicts(c, elems) == [i \in 1..Len(elems) |-> ToDictOf(c, elems[i])]

\* the field maps of passwords handed to CredentialList
PasswordDicts ==
    {[d EXCEPT !.credential_id = PyStr(ToString(k))] :
        d \in DictsOver({"salt", "created_by", "foo"}), k \in Keys}

CredInit ==
    /\ old_elements \in SeqsUpTo(PasswordDicts, MaxCreds)
    /\ elements = <<>>
    /\ op = "input"
    /\ key = 0
    /\ element = False
    /\ raised = NoException
    /\ data = EmptyData
    /\ value = PyNone
    /\ old_data = EmptyData
    /\ clock = 0
    /\ event_class = "none"
    /\ cls = "Password"
    /\ OtherInit

\* CredentialList(old_elements)
CredConstruct ==
    /\ op = "input"
    /\ LET res == CredentialListInit(old_elements, clock)
       IN /\ elements' = res.elements
          /\ raised' = res.raised
    /\ op' = "CredentialList"
    /\ UNCHANGED <<key, element, old_elements, event_class, elemVars>>

CredNext == CredConstruct

CredSpec == CredInit /\ [][CredNext]_vars

-----------------------------------------------------------------------------
(* Specification of a PrimaryElementList and a list derived from it *)

\* Python lists hold references: heap.objects[id] is an element object,
\* heap.source and heap.derived are the _elements of the two lists, as ids,
\* and heap.kind is the class of the derived list ("none" before there is one)

\* the elements the list of ids refers to
Deref(h, ids) == [i \in 1..Len(ids) |-> h.objects[ids[i]]]

\* the ids of a list after a call turned its contents from before to after:
\* a longer list has the new object appended, a shorter one has lost the
\* element with key k
IdsAfter(ids, before, after, new_id, k) ==
    IF Len(after) > Len(before) THEN Append(ids, new_id)
    ELSE IF Len(after) < Len(before)
    THEN SelectSeq(ids, LAMBDA id : \E i \in 1..Len(ids) : ids[i] = id /\ before[i].key # k)
    ELSE ids

\* the objects after a call turned the contents of the list ids from before
\* to after: the primary setter assigns is_primary on the objects themselves
ObjectsAfter(objects, ids, before, after) ==
    IF Len(after) # Len(before) THEN objects
    ELSE [id \in 1..Len(objects) |->
            IF \E i \in 1..Len(ids) : ids[i] = id
            THEN after[CHOOSE i \in 1..Len(ids) : ids[i] = id]
            ELSE objects[id]]

\* the ids some list refers to
Live(h) ==
    {h.source[i] : i \in 1..Len(h.source)} \cup {h.derived[i] : i \in 1..Len(h.derived)}

\* the place of the object id among the objects some list refers to
Rank(h, id) == Cardinality({j \in Live(h) : j <= id})

\* an object no list refers to is gone (reference counting)
Release(h) ==
    [h EXCEPT !.objects = [n \in 1..Cardinality(Live(h)) |->
                              h.objects[CHOOSE id \in Live(h) : Rank(h, id) = n]],
              !.source = [i \in 1..Len(h.source) |-> Rank(h, h.source[i])],
              !.derived = [i \in 1..Len(h.derived) |-> Rank(h, h.derived[i])]]

\* x.add(e) on the list ids of class kind: e is a new object
ListAdd(h, ids, kind, e) ==
    LET before == Deref(h, ids)
        res == IF kind = "PrimaryElementList"
               THEN PrimaryElementListAdd(NewList(before), e)
               ELSE [raised |-> NoException, self |-> ElementListAdd(NewList(before), e)]
        after == Contents(res.self)
    IN [raised |-> res.raised,
        objects |-> IF Len(after) > Len(before) THEN Append(h.objects, e) ELSE h.objects,
        ids |-> IdsAfter(ids, before, after, Len(h.objects) + 1, e.key)]

\* x.remove(k) on the list ids of class kind
ListRemove(h, ids, kind, k) ==
    LET before == Deref(h, ids)
        res == IF kind = "PrimaryElementList"
               THEN PrimaryElementListRemove(NewList(before), k)
               ELSE ElementListRemove(NewList(before), k)
        after == Contents(res.self)
    IN [raised |-> res.raised,
        objects |-> h.objects,
        ids |-> IdsAfter(ids, before, after, 0, k)]

\* x.primary = k on the PrimaryElementList ids
ListSetPrimary(h, ids, k) ==
    LET before == Deref(h, ids)
        res == PrimaryElementListSetPrimary(NewList(before), k)
        after == Contents(res.self)
    IN [raised |-> res.raised,
        objects |-> ObjectsAfter(h.objects, ids, before, after),
        ids |-> ids]

\* a verified getter that hands every member to the new list
ListVerifiedAll(h, ids) ==
    LET verified_elements == ids
        res == PrimaryElementListInit(Deref(h, verified_elements))
    IN [raised |-> res.raised,
        ids |-> IF res.raised = NoException THEN verified_elements ELSE <<>>]

\* PrimaryElementList.verified: self.__class__(verified_elements)
ListVerified(h, ids) ==
    LET verified_elements == SelectSeq(ids, LAMBDA id : h.objects[id].verified)
        res == PrimaryElementListInit(Deref(h, verified_elements))
    IN [raised |-> res.raised,
        ids |-> IF res.raised = NoException THEN verified_elements ELSE <<>>]

\* the classes filter is called with: one every member is an instance of,
\* and one no member is an instance of
FilterClasses == {"PrimaryElement", "Event"}

\* ElementList.filter(c): ElementList([x for x in self._elements if isinstance(x, c)])
ListFilter(h, ids, c) == IF c = "PrimaryElement" THEN ids ELSE <<>>

\* the _data of a list member
ElementData(e) ==
    [EmptyData EXCEPT !.verified = PyBool(e.verified), !.primary = PyBool(e.primary)]

\* member.is_verified = v
MemberSetIsVerified(e, v) ==
    LET res == PrimaryElementSetIsVerified(ElementData(e), v)
    IN [raised |-> res.raised,
        element |-> [e EXCEPT !.verified = (res.data.verified = PyBool(TRUE))]]

ViewInit ==
    /\ \E elems \in SeqsUpTo(PrimaryElement, MaxView) :
          /\ PrimaryElementListInit(elems).raised = NoException
          /\ elements = elems
          /\ heap = [objects |-> elems, source |-> [i \in 1..Len(elems) |-> i],
                     derived |-> <<>>, kind |-> "none"]
    /\ old_elements = elements
    /\ op = "__init__"
    /\ key = 0
    /\ element = False
    /\ raised = NoException
    /\ data = EmptyData
    /\ value = PyNone
    /\ old_data = EmptyData
    /\ clock = 0
    /\ event_class = "none"
    /\ cls = "none"
    /\ db = NoDb
    /\ mongo_doc = NoDoc

\* what every call of this specification leaves alone
ViewFrame == UNCHANGED <<data, value, old_data, clock, event_class, cls, db, mongo_doc>>

\* derived = source.verified
TakeVerified ==
    /\ heap.kind = "none"
    /\ LET res == ListVerified(heap, heap.source)
       IN /\ heap' = [heap EXCEPT !.derived = res.ids,
                                  !.kind = IF res.raised = NoException
                                           THEN "PrimaryElementList" ELSE "none"]
          /\ raised' = res.raised
    /\ op' = "verified"
    /\ key' = 0
    /\ element' = False
    /\ old_elements' = elements
    /\ elements' = Deref(heap', heap'.source)
    /\ ViewFrame

\* derived = source.filter(c)
TakeFilter(c) ==
    /\ heap.kind = "none"
    /\ heap' = [heap EXCEPT !.derived = ListFilter(heap, heap.source, c),
                            !.kind = "ElementList"]
    /\ raised' = NoException
    /\ op' = "filter"
    /\ key' = 0
    /\ element' = False
    /\ old_elements' = elements
    /\ elements' = Deref(heap', heap'.source)
    /\ ViewFrame

\* source.primary = k
SourceSetPrimary(k) ==
    /\ LET res == ListSetPrimary(heap, heap.source, k)
       IN /\ heap' = [heap EXCEPT !.objects = res.objects, !.source = res.ids]
          /\ raised' = res.raised
    /\ op' = "source.primary"
    /\ key' = k
    /\ element' = False
    /\ old_elements' = elements
    /\ elements' = Deref(heap', heap'.source)
    /\ ViewFrame

\* derived.add(e)
DerivedAdd(e) ==
    /\ heap.kind # "none"
    /\ Len(heap.objects) < Len(heap.source) + MaxNew
    /\ LET res == ListAdd(heap, heap.derived, heap.kind, e)
       IN /\ heap' = [heap EXCEPT !.objects = res.objects, !.derived = res.ids]
          /\ raised' = res.raised
    /\ op' = "derived.add"
    /\ key' = e.key
    /\ element' = False
    /\ old_elements' = elements
    /\ elements' = Deref(heap', heap'.source)
    /\ ViewFrame

\* derived.remove(k)
DerivedRemove(k) ==
    /\ heap.kind # "none"
    /\ LET res == ListRemove(heap, heap.derived, heap.kind, k)
       IN /\ heap' = Release([heap EXCEPT !.objects = res.objects, !.derived = res.ids])
          /\ raised' = res.raised
    /\ op' = "derived.remove"
    /\ key' = k
    /\ element' = False
    /\ old_elements' = elements
    /\ elements' = Deref(heap', heap'.source)
    /\ ViewFrame

\* derived.primary = k
DerivedSetPrimary(k) ==
    /\ heap.kind = "PrimaryElementList"
    /\ LET res == ListSetPrimary(heap, heap.derived, k)
       IN /\ heap' = [heap EXCEPT !.objects = res.objects, !.derived = res.ids]
          /\ raised' = res.raised
    /\ op' = "derived.primary"
    /\ key' = k
    /\ element' = False
    /\ old_elements' = elements
    /\ elements' = Deref(heap', heap'.source)
    /\ ViewFrame

\* source.to_list()[i].is_verified = v
SetMemberIsVerified(i, v) ==
    /\ i \in 1..Len(heap.source)
    /\ LET res == MemberSetIsVerified(heap.objects[heap.source[i]], v)
       IN /\ heap' = [heap EXCEPT !.objects[heap.source[i]] = res.element]
          /\ raised' = res.raised
    /\ op' = "is_verified"
    /\ key' = heap.objects[heap.source[i]].key
    /\ element' = False
    /\ old_elements' = elements
    /\ elements' = Deref(heap', heap'.source)
    /\ ViewFrame

\* a list, the lists derived from it, and the calls on the list and its members
ViewNext ==
    \/ TakeVerified
    \/ \E c \in FilterClasses : TakeFilter(c)
    \/ \E k \in Keys : SourceSetPrimary(k)
    \/ \E i \in 1..MaxView, v \in FlagValues : SetMemberIsVerified(i, v)

ViewSpec == ViewInit /\ [][ViewNext]_vars

\* a list, a list derived from it, and the calls on either
SharedNext ==
    \/ TakeVerified
    \/ \E c \in FilterClasses : TakeFilter(c)
    \/ \E k \in Keys : SourceSetPrimary(k)
    \/ \E e \in PrimaryElement : DerivedAdd(e)
    \/ \E k \in Keys : DerivedRemove(k)
    \/ \E k \in Keys : DerivedSetPrimary(k)

SharedSpec == ViewInit /\ [][SharedNext]_vars

-----------------------------------------------------------------------------
(* Specification of the mail fields of a DashboardLegacyUser *)

\* mongo_doc.mail is an address (0 for the empty string) and
\* mongo_doc.mailAliases a list of {'email': ..., 'verified': ...}
MailAlias == [email : Keys, verified : BOOLEAN]

\* an add_verified_email that makes the address primary whatever the number
\* of aliases
AddVerifiedEmailAlways(doc, verified_email) ==
    LET emails == doc.mailAliases
        hit(i) == emails[i].email = verified_email
    IN [mail |-> IF \E i \in 1..Len(emails) : hit(i)
                 THEN verified_email ELSE doc.mail,
        mailAliases |-> [i \in 1..Len(emails) |->
                            IF hit(i) THEN [emails[i] EXCEPT !.verified = TRUE]
                            ELSE emails[i]]]

\* DashboardLegacyUser.add_verified_email
AddVerifiedEmail(doc, verified_email) ==
    LET emails == doc.mailAliases
        hit(i) == emails[i].email = verified_email
    IN [mail |-> IF Len(emails) = 1 /\ (\E i \in 1..Len(emails) : hit(i))
                 THEN verified_email ELSE doc.mail,
        mailAliases |-> [i \in 1..Len(emails) |->
                            IF hit(i) THEN [emails[i] EXCEPT !.verified = TRUE]
                            ELSE emails[i]]]

DashInit ==
    /\ mongo_doc \in [mail : {0} \cup Keys, mailAliases : SeqsUpTo(MailAlias, MaxLen)]
    /\ op = "__init__"
    /\ key = 0
    /\ elements = <<>>
    /\ old_elements = <<>>
    /\ element = False
    /\ raised = NoException
    /\ data = EmptyData
    /\ value = PyNone
    /\ old_data = EmptyData
    /\ clock = 0
    /\ event_class = "none"
    /\ cls = "none"
    /\ heap = NoHeap
    /\ db = NoDb

\* user.add_verified_email(e)
DashAddVerifiedEmail(e) ==
    /\ mongo_doc' = AddVerifiedEmail(mongo_doc, e)
    /\ op' = "add_verified_email"
    /\ key' = e
    /\ UNCHANGED <<elements, element, raised, old_elements, event_class, data, value, old_data, clock, cls, heap, db>>

\* user.set_mail(m)
DashSetMail(m) ==
    /\ mongo_doc' = [mongo_doc EXCEPT !.mail = m]
    /\ op' = "set_mail"
    /\ key' = m
    /\ UNCHANGED <<elements, element, raised, old_elements, event_class, data, value, old_data, clock, cls, heap, db>>

DashNext ==
    \/ \E e \in Keys : DashAddVerifiedEmail(e)
    \/ \E m \in Keys : DashSetMail(m)

DashSpec == DashInit /\ [][DashNext]_vars

-----------------------------------------------------------------------------
(* Specification of two copies of one stored document and their saves *)

\* db.stored is the collection: the documents of one user, each with its
\* modified_ts (PyNone when the document has none) and the copy that wrote
\* it (0 for the document the copies were loaded from).  db.copies are the
\* in-memory copies: user_id tells whether the object has that attribute,
\* result is "loaded" until the copy has been saved.

\* collection.update(test_doc, doc, upsert): test_ts is test_doc's
\* modified_ts, PyNone when test_doc has only the id
CollUpdate(stored, test_ts, doc, upsert) ==
    LET hits == {i \in 1..Len(stored) : test_ts = PyNone \/ stored[i].modified_ts = test_ts}
    IN IF hits # {}
       THEN [n |-> 1,
             stored |-> [stored EXCEPT ![CHOOSE i \in hits : \A j \in hits : i <= j] = doc]]
       ELSE IF upsert THEN [n |-> 1, stored |-> Append(stored, doc)]
       ELSE [n |-> 0, stored |-> stored]

\* ProofingStateDB.save(state, check_sync) by copy who at time now
ProofingStateDBSave(stored, state, who, now, check_sync) ==
    IF ~state.user_id
    THEN [raised |-> AttributeError, stored |-> stored, state |-> state]
    ELSE LET modified == state.modified_ts
             saved == [state EXCEPT !.modified_ts = PyDatetime(now)]
             doc == [modified_ts |-> saved.modified_ts, by |-> who]
         IN IF modified = PyNone
            THEN [raised |-> NoException, stored |-> Append(stored, doc), state |-> saved]
            ELSE LET result == CollUpdate(stored, IF check_sync THEN modified ELSE PyNone,
                                          doc, ~check_sync)
                 IN IF check_sync /\ result.n = 0
                    THEN [raised |-> DocumentOutOfSync, stored |-> result.stored,
                          state |-> saved]
                    ELSE [raised |-> NoException, stored |-> result.stored, state |-> saved]

\* DashboardLegacyUser.save(request, check_sync) by copy who at time now
DashboardLegacyUserSave(stored, user, who, now, check_sync) ==
    LET modified == user.modified_ts
        saved == [user EXCEPT !.modified_ts = PyDatetime(now)]
        doc == [modified_ts |-> saved.modified_ts, by |-> who]
        result == CollUpdate(stored,
                             IF check_sync /\ modified # PyNone THEN modified ELSE PyNone,
                             doc, ~check_sync)
    IN IF result.n = 0 /\ check_sync
       THEN [raised |-> UserOutOfSync, stored |-> result.stored, state |-> saved]
       ELSE [raised |-> NoException, stored |-> result.stored, state |-> saved]

\* the classes whose save is modelled: ProofingStateDB.save(state) for
\* "ProofingState", DashboardLegacyUser.save for the other
SavedClasses == {"ProofingState", "DashboardLegacyUser"}

\* two copies loaded from one stored document.  uid tells whether the state
\* object handed to ProofingStateDB.save has the user_id that save reads: the
\* classes of proofing/state.py have id and eppn and no user_id
SaveInit ==
    /\ cls \in SavedClasses
    /\ \E ts \in {PyNone, PyDatetime(0)}, uid \in BOOLEAN :
          /\ cls = "ProofingState" => ts # PyNone
          /\ cls = "DashboardLegacyUser" => uid
          /\ db = [stored |-> <<[modified_ts |-> ts, by |-> 0]>>,
                   copies |-> [i \in 1..2 |->
                                  [user_id |-> uid, modified_ts |-> ts,
                                   check_sync |-> TRUE, result |-> "loaded"]]]
    /\ clock = 0
    /\ op = "load"
    /\ key = 0
    /\ raised = NoException
    /\ elements = <<>>
    /\ old_elements = <<>>
    /\ element = False
    /\ data = EmptyData
    /\ value = PyNone
    /\ old_data = EmptyData
    /\ event_class = "none"
    /\ heap = NoHeap
    /\ mongo_doc = NoDoc

\* copy i is saved
SaveCopy(i, check_sync) ==
    /\ db.copies[i].result = "loaded"
    /\ LET res == IF cls = "ProofingState"
                  THEN ProofingStateDBSave(db.stored, db.copies[i], i, clock, check_sync)
                  ELSE DashboardLegacyUserSave(db.stored, db.copies[i], i, clock, check_sync)
       IN /\ db' = [stored |-> res.stored,
                    copies |-> [db.copies EXCEPT ![i] =
                                  [res.state EXCEPT !.check_sync = check_sync,
                                                    !.result = IF res.raised = NoException
                                                               THEN "saved" ELSE res.raised]]]
          /\ raised' = res.raised
    /\ op' = "save"
    /\ key' = i
    /\ UNCHANGED <<elements, element, old_elements, event_class, data, value, old_data,
                   clock, cls, heap, mongo_doc>>

SaveNext ==
    \/ \E i \in 1..2, check_sync \in BOOLEAN : SaveCopy(i, check_sync)
    \/ Tick

SaveSpec == SaveInit /\ [][SaveNext]_vars

-----------------------------------------------------------------------------
(* Specification of a LockedIdentityList *)

\* the identity types of the records a list is made from, and so the keys
IdentityTypes == {"nin", "other"}

\* the records handed to LockedIdentityList.__init__
LockedItems == [identity_type : IdentityTypes, number : Keys]

\* a LockedIdentityNin in a list: its key is its identity_type
LockedNin(number) == [key |-> "nin", number |-> number]

\* LockedIdentityList.__init__: a record of type 'nin' becomes a
\* LockedIdentityNin, a record of another type is passed over
LockedIdentityListInit(locked_identities) ==
    LET nins == SelectSeq(locked_identities, LAMBDA item : item.identity_type = "nin")
    IN [i \in 1..Len(nins) |-> LockedNin(nins[i].number)]

\* a list that has the remove of ElementList
LockedIdentityListRemoveInherited(self, k) == ElementListRemove(self, k)

\* LockedIdentityList.remove
LockedIdentityListRemove(self, k) == [raised |-> EduIDUserDBError, self |-> self]

LockInit ==
    /\ \E locked_identities \in SeqsUpTo(LockedItems, MaxLen) :
          elements = LockedIdentityListInit(locked_identities)
    /\ old_elements = elements
    /\ op = "__init__"
    /\ key = 0
    /\ element = False
    /\ raised = NoException
    /\ event_class = "none"
    /\ data = EmptyData
    /\ value = PyNone
    /\ old_data = EmptyData
    /\ clock = 0
    /\ cls = "none"
    /\ OtherInit

\* l.add(x), the add of ElementList: x is LockedIdentityNin(number, ...), or
\* the record the element would be made from, which is not an Element
LockAdd(number, is_element) ==
    /\ Len(elements) < MaxLen
    /\ elements' = IF is_element
                   THEN Contents(ElementListAdd(NewList(elements), LockedNin(number)))
                   ELSE elements
    /\ raised' = IF is_element THEN NoException ELSE UserDBValueError
    /\ op' = "add"
    /\ key' = "nin"
    /\ element' = LockedNin(number)
    /\ old_elements' = elements
    /\ UNCHANGED <<event_class, elemVars>>

\* l.remove(k)
LockRemove(k) ==
    /\ LET res == LockedIdentityListRemove(NewList(elements), k)
       IN /\ elements' = Contents(res.self)
          /\ raised' = res.raised
    /\ op' = "remove"
    /\ key' = k
    /\ element' = False
    /\ old_elements' = elements
    /\ UNCHANGED <<event_class, elemVars>>

\* l.find(k)
LockFind(k) ==
    /\ LET res == ElementListFind(elements, k)
       IN /\ element' = res.result
          /\ raised' = res.raised
    /\ op' = "find"
    /\ key' = k
    /\ old_elements' = elements
    /\ UNCHANGED <<elements, event_class, elemVars>>

LockNext ==
    \/ \E number \in Keys, is_element \in BOOLEAN : LockAdd(number, is_element)
    \/ \E k \in IdentityTypes : LockRemove(k)
    \/ \E k \in IdentityTypes : LockFind(k)

LockSpec == LockInit /\ [][LockNext]_vars

-----------------------------------------------------------------------------
(* Properties of PrimaryElementList, checked under Spec *)

Indexes(elems) == 1..Len(elems)
HasVerified(elems) == \E i \in Indexes(elems) : elems[i].verified
PrimaryIndexes(elems) == {i \in Indexes(elems) : elems[i].primary}
HasKey(elems, k) == \E i \in Indexes(elems) : elems[i].key = k

\* C1: whenever the list holds a verified element, exactly one element of
\* the whole list is primary, and that element is verified.
C1_OnePrimaryWhenVerified ==
    HasVerified(elements) =>
        /\ Cardinality(PrimaryIndexes(elements)) = 1
        /\ \A i \in PrimaryIndexes(elements) : elements[i].verified

\* C2: whenever the list holds no verified element, no element is primary.
C2_NoPrimaryWhenUnverified ==
    ~HasVerified(elements) => PrimaryIndexes(elements) = {}

\* C3: an add() of a new key whose result would violate the primary
\* invariant raises PrimaryElementViolation and leaves the list as it was
\* before the call: same members in the same order, same count, and the
\* new key is not found.
C3_AddRollsBack ==
    (/\ op = "add"
     /\ ~HasKey(old_elements, element.key)
     /\ GetPrimary(Append(old_elements, element)).raised = PrimaryElementViolation)
    => /\ raised = PrimaryElementViolation
       /\ elements = old_elements
       /\ Len(elements) = Len(old_elements)
       /\ ElementListFind(elements, element.key).result = False

\* the call removes the element the primary getter returned, while some
\* other member is verified
RemovesPrimaryLeavingVerified ==
    /\ op = "remove"
    /\ ElementListFind(old_elements, key).result # False
    /\ GetPrimary(old_elements).raised = NoException
    /\ GetPrimary(old_elements).result = ElementListFind(old_elements, key).result
    /\ \E i \in Indexes(old_elements) :
          old_elements[i].key # key /\ old_elements[i].verified

\* C4: a remove() that would take the primary element out while another
\* verified element remains raises PrimaryElementViolation, and the list
\* afterwards has the elements it had before, with the same flags, order
\* and count.
C4_RemoveRollsBack ==
    RemovesPrimaryLeavingVerified
    => /\ raised = PrimaryElementViolation
       /\ elements = old_elements
       /\ Len(elements) = Len(old_elements)

\* a failed removal of the primary of a list with two verified elements
C4_Witness ==
    /\ RemovesPrimaryLeavingVerified
    /\ raised = PrimaryElementViolation
    /\ Len(old_elements) >= 2

\* C5: an add() of an element whose key some member already has raises
\* DuplicateElementViolation, whatever the flags of the new element, and
\* leaves the list unchanged.
C5_DuplicateAddRejected ==
    (op = "add" /\ HasKey(old_elements, element.key))
    => /\ raised = DuplicateElementViolation
       /\ elements = old_elements

\* C6: setting primary to an absent key raises the not-found error, setting
\* it to the key of an unverified element raises PrimaryElementViolation;
\* either way no is_primary flag changes and the primary getter gives what
\* it gave before the call.
C6_FailedSetPrimary ==
    /\ (op = "primary" /\ ~HasKey(old_elements, key))
       => /\ raised = UserDBValueError
          /\ elements = old_elements
          /\ GetPrimary(elements) = GetPrimary(old_elements)
    /\ (/\ op = "primary"
        /\ \E i \in Indexes(old_elements) :
              old_elements[i].key = key /\ ~old_elements[i].verified)
       => /\ raised = PrimaryElementViolation
          /\ elements = old_elements
          /\ GetPrimary(elements) = GetPrimary(old_elements)

\* C7: after a successful set-primary(key), whatever the flags were before,
\* each element is primary exactly when its key is key, the primary getter
\* returns the element with that key, the collection invariant holds, and
\* nothing but the is_primary flags has changed.
C7_SetPrimaryReassigns ==
    (op = "primary" /\ raised = NoException)
    => /\ \A i \in Indexes(elements) : elements[i].primary = (elements[i].key = key)
       /\ GetPrimary(elements).raised = NoException
       /\ GetPrimary(elements).result.key = key
       /\ GetPrimary(elements).result = ElementListFind(elements, key).result
       /\ C1_OnePrimaryWhenVerified
       /\ C2_NoPrimaryWhenUnverified
       /\ Len(elements) = Len(old_elements)
       /\ \A i \in Indexes(elements) :
             /\ elements[i].key = old_elements[i].key
             /\ elements[i].verified = old_elements[i].verified

\* a successful set-primary that took the primary flag from another element
C7_Witness ==
    /\ op = "primary"
    /\ raised = NoException
    /\ \E i \in Indexes(old_elements) :
          old_elements[i].primary /\ old_elements[i].key # key

-----------------------------------------------------------------------------
(* Properties of the provenance setters, checked under ElemSpec *)

CreatedFields == {"created_by", "created_ts"}

\* C8: once created_by / created_ts holds a non-null value, a non-null
\* assignment to it raises UserDBValueError, also when the value assigned is
\* the stored one, and no call changes the stored value any more.
C8_SetOnce ==
    /\ (op \in CreatedFields /\ old_data[op] # PyNone /\ value # PyNone)
       => raised = UserDBValueError /\ data = old_data
    /\ \A f \in CreatedFields : old_data[f] # PyNone => data[f] = old_data[f]

\* an assignment of the very value that created_by already holds
C8_Witness ==
    /\ op = "created_by"
    /\ old_data.created_by # PyNone
    /\ value = old_data.created_by
    /\ raised = UserDBValueError

-----------------------------------------------------------------------------
(* Properties of the flags of one PrimaryElement, checked under ElemSpec *)

\* C11: is_verified = False on an element whose is_primary is True raises
\* PrimaryElementViolation and leaves is_verified True; every other boolean
\* assignment to is_verified succeeds and stores the value.
C11_UnverifyPrimaryRefused ==
    (op = "is_verified" /\ value.t = "bool")
    => IF value = PyBool(FALSE) /\ old_data.primary = PyBool(TRUE)
       THEN /\ raised = PrimaryElementViolation
            /\ data.verified = PyBool(TRUE)
            /\ data = old_data
       ELSE /\ raised = NoException
            /\ data = [old_data EXCEPT !.verified = value]

\* C12: in every state of a PrimaryElement, is_primary implies is_verified.
C12_PrimaryImpliesVerified ==
    data.primary = PyBool(TRUE) => data.verified = PyBool(TRUE)

-----------------------------------------------------------------------------
(* Further properties of the lists *)

UniqueKeys(elems) ==
    \A i, j \in Indexes(elems) : elems[i].key = elems[j].key => i = j

\* C17: no two members of a list that rejects duplicates share a key, in
\* any reachable state, the state right after construction included.
C17_NoDuplicateKeys == UniqueKeys(elements)

VerifiedPrimaryIndexes(elems) ==
    {i \in Indexes(elems) : elems[i].verified /\ elems[i].primary}

\* what C18 says a constructible sequence is
Constructible(elems) ==
    \/ ~HasVerified(elems) /\ PrimaryIndexes(elems) = {}
    \/ Cardinality(VerifiedPrimaryIndexes(elems)) = 1

KeyIndexes(elems, k) == {i \in Indexes(elems) : elems[i].key = k}

\* C19: find(key) returns the member with that key when exactly one member
\* has it, False when none has it, raises EduIDUserDBError when more than
\* one has it, and leaves the list as it was.
C19_Find ==
    op = "find"
    => /\ elements = old_elements
       /\ Cardinality(KeyIndexes(elements, key)) = 1 =>
             /\ raised = NoException
             /\ \E i \in KeyIndexes(elements, key) : element = elements[i]
       /\ KeyIndexes(elements, key) = {} =>
             /\ raised = NoException
             /\ element = False
       /\ Cardinality(KeyIndexes(elements, key)) > 1 => raised = EduIDUserDBError

\* a find of a key that two members share
C19_Witness ==
    /\ op = "find"
    /\ Cardinality(KeyIndexes(elements, key)) > 1
    /\ raised = EduIDUserDBError

\* elems without its i-th element
Without(elems, i) == SubSeq(elems, 1, i - 1) \o SubSeq(elems, i + 1, Len(elems))

\* C20: a successful add puts the new element last, and a successful remove
\* deletes exactly the element with the given key and keeps the other
\* elements in their order.
C20_InsertionOrder ==
    /\ (op = "add" /\ raised = NoException) => elements = Append(old_elements, element)
    /\ (op = "remove" /\ raised = NoException)
       => \E i \in KeyIndexes(old_elements, key) : elements = Without(old_elements, i)

\* the removal of the first of three elements
C20_Witness ==
    /\ op = "remove"
    /\ raised = NoException
    /\ Len(old_elements) = 3
    /\ old_elements[1].key = key
    /\ elements = <<old_elements[2], old_elements[3]>>

-----------------------------------------------------------------------------
(* Properties of EventList, checked under EvSpec *)

\* the members of elems that have the key of event e
SameKey(elems, e) == {i \in Indexes(elems) : EventKey(elems[i]) = EventKey(e)}

\* C13: add of an event of the list's class whose key matches an existing
\* event returns silently, the list unchanged, exactly when all the fields
\* of the two events are the same; when any field differs, event_type
\* included, it raises DuplicateElementViolation, the list unchanged.
C13_IdenticalEventsOnly ==
    (op = "add" /\ IsInstance(element.cls, event_class))
    => \A i \in SameKey(old_elements, element) :
          /\ elements = old_elements
          /\ IF element.data = old_elements[i].data
             THEN raised = NoException
             ELSE raised = DuplicateElementViolation

-----------------------------------------------------------------------------
(* Properties of to_dict / from_dict, checked under DictSpec *)

\* C14: for every instance x of a concrete element class,
\* from_dict(x.to_dict()) returns an element whose fields are those of x.
C14_RoundTrip ==
    op = "from_dict" => (raised = NoException /\ data = old_data)

\* the field map is not one of another type of event
OwnEventType(c, d) == c = "ToUEvent" => d.event_type \in {PyNone, PyStr("tou_event")}

-----------------------------------------------------------------------------
(* Properties of CredentialList, checked under CredSpec *)

\* a field map a Password serialises to: known keys only, none missing
PasswordRecord(d) ==
    /\ Leftovers(d, PasswordKnownData) = {}
    /\ RequiredData("Password") \subseteq DictKeys(d)

\* C15: a CredentialList built from the serialisation of a list of passwords
\* is built without an error and serialises to that same sequence of field
\* maps, in the same order.
C15_ListParseCycle ==
    (op = "CredentialList" /\ \A i \in Indexes(old_elements) : PasswordRecord(old_elements[i]))
    => /\ raised = NoException
       /\ ToListOfDicts("Password", elements) = old_elements

-----------------------------------------------------------------------------
(* Further properties of PrimaryElementList, checked under Spec *)

\* C21: remove(key) on a list that has no element with that key raises
\* UserDBValueError, the error for an element that is not found, and leaves
\* the list as it was: same members, same order, same count.
C21_RemoveAbsentKey ==
    (op = "remove" /\ ~HasKey(old_elements, key))
    => /\ raised = UserDBValueError
       /\ elements = old_elements

\* a remove of a key that a list of two elements does not hold
C21_Witness ==
    /\ op = "remove"
    /\ Len(old_elements) = 2
    /\ ~HasKey(old_elements, key)
    /\ raised = UserDBValueError

-----------------------------------------------------------------------------
(* Properties of derived lists, checked under ViewSpec and SharedSpec *)

\* the collection-wide invariant of a PrimaryElementList: without a verified
\* element no element is primary; with one, exactly one element is primary
\* and that element is verified
CollectionInvariant(elems) ==
    IF HasVerified(elems)
    THEN /\ Cardinality(PrimaryIndexes(elems)) = 1
         /\ PrimaryIndexes(elems) = VerifiedPrimaryIndexes(elems)
    ELSE PrimaryIndexes(elems) = {}

\* the members of the derived list
Derived == Deref(heap, heap.derived)

\* C22: on a PrimaryElementList that satisfies the collection invariant the
\* verified getter does not raise and returns a new list of the same class
\* that holds exactly the verified members, in their original order, and
\* whose primary is the primary of the source; the source is unchanged.
C22_VerifiedGetter ==
    (op = "verified" /\ CollectionInvariant(old_elements))
    => /\ raised = NoException
       /\ heap.kind = "PrimaryElementList"
       /\ Derived = SelectSeq(old_elements, LAMBDA x : x.verified)
       /\ GetPrimary(Derived) = GetPrimary(old_elements)
       /\ elements = old_elements

\* the getter on a list of an unverified and a verified primary element
C22_Witness ==
    /\ op = "verified"
    /\ CollectionInvariant(old_elements)
    /\ Len(old_elements) = 2
    /\ Len(Derived) = 1
    /\ GetPrimary(Derived).result # None

\* C23: a list obtained by filter or by the verified getter shares no
\* mutation with its source: an add, remove or set-primary call on the
\* derived list leaves the members of the source and their flags as they
\* were, and a set-primary call on the source leaves those of the derived
\* list as they were.
C23_NoSharedMutation ==
    [][/\ op' \in {"derived.add", "derived.remove", "derived.primary"}
          => Deref(heap', heap'.source) = Deref(heap, heap.source)
       /\ (op' = "source.primary" /\ heap.kind # "none")
          => Deref(heap', heap'.derived) = Deref(heap, heap.derived)]_vars

\* C28: assigning is_verified of a member of a PrimaryElementList that
\* satisfies the collection invariant either raises PrimaryElementViolation
\* and changes nothing, or leaves a list whose primary getter does not raise.
C28_MemberSetterKeepsList ==
    (op = "is_verified" /\ CollectionInvariant(old_elements))
    => \/ raised = PrimaryElementViolation /\ elements = old_elements
       \/ GetPrimary(elements).raised = NoException

-----------------------------------------------------------------------------
(* Further properties of EventList, checked under EvSpec *)

\* C24: an EventList holds events of one concrete class only: in every
\* reachable state, the state after construction included, all members
\* have the same class.
C24_OneEventClass ==
    \A i, j \in 1..Len(elements) : elements[i].cls = elements[j].cls

-----------------------------------------------------------------------------
(* Properties of DashboardLegacyUser, checked under DashSpec *)

\* C25: add_verified_email(e) makes the alias whose email is e verified; when
\* that alias is the only alias of the user the primary mail becomes e, and
\* when the user has more than one alias the primary mail is unchanged; every
\* other alias is left as it was.
C25_AddVerifiedEmail ==
    [][op' = "add_verified_email" =>
        LET old == mongo_doc.mailAliases
            new == mongo_doc'.mailAliases
            e == key'
        IN /\ Len(new) = Len(old)
           /\ \A i \in 1..Len(old) :
                 IF old[i].email = e
                 THEN new[i] = [email |-> e, verified |-> TRUE]
                 ELSE new[i] = old[i]
           /\ (Len(old) = 1 /\ old[1].email = e) => mongo_doc'.mail = e
           /\ Len(old) > 1 => mongo_doc'.mail = mongo_doc.mail]_vars

\* the only alias of a user has been verified and made the primary mail
C25_Witness ==
    /\ op = "add_verified_email"
    /\ Len(mongo_doc.mailAliases) = 1
    /\ mongo_doc.mailAliases[1] = [email |-> key, verified |-> TRUE]
    /\ mongo_doc.mail = key

-----------------------------------------------------------------------------
(* Properties of the saves, checked under SaveSpec *)

\* both copies have been saved with check_sync=True
BothSaved ==
    \A i \in 1..2 : db.copies[i].result # "loaded" /\ db.copies[i].check_sync

\* the copies whose save succeeded
Succeeded == {i \in 1..2 : db.copies[i].result = "saved"}

\* C26: ProofingStateDB.save with check_sync=True: of two copies loaded from
\* one stored document and both saved, in either order, exactly one save
\* succeeds and the other raises DocumentOutOfSync, and the stored document
\* is the one the successful save wrote.
C26_ProofingSaveOnce ==
    (cls = "ProofingState" /\ BothSaved)
    => /\ Cardinality(Succeeded) = 1
       /\ \A i \in (1..2) \ Succeeded : db.copies[i].result = DocumentOutOfSync
       /\ \A i \in Succeeded : db.stored = <<[modified_ts |-> db.copies[i].modified_ts, by |-> i]>>

\* C27: DashboardLegacyUser.save with check_sync=True: for every stored
\* document, one without a modified_ts included, of two copies loaded from it
\* at most one save succeeds, and the other raises UserOutOfSync and leaves
\* the stored document as the successful save wrote it.
C27_UserSaveAtMostOnce ==
    (cls = "DashboardLegacyUser" /\ BothSaved)
    => /\ Cardinality(Succeeded) <= 1
       /\ \A i \in (1..2) \ Succeeded : db.copies[i].result = UserOutOfSync
       /\ \A i \in Succeeded : db.stored = <<[modified_ts |-> db.copies[i].modified_ts, by |-> i]>>

-----------------------------------------------------------------------------
(* Further properties of to_dict, checked under DictSpec *)

\* C29: the field map to_dict returns is independent of the element: after
\* a key of the returned map is added, deleted or changed, the element's
\* stored fields are what they were, and so is the result of a later to_dict.
C29_ToDictIndependent ==
    op = "mutate"
    => /\ data = old_data
       /\ ToDictOf(cls, data) = ToDictOf(cls, old_data)

-----------------------------------------------------------------------------
(* Properties of LockedIdentityList, checked under LockSpec *)

\* C30: LockedIdentityList.remove(key) raises for every key and leaves the
\* list unchanged, and over every step of a LockedIdentityList each member
\* stays a member, in its place, so that count never decreases.
C30_NeverRemoved ==
    [][/\ op' = "remove" => (raised' = EduIDUserDBError /\ elements' = elements)
       /\ Len(elements') >= Len(elements)
       /\ \A i \in 1..Len(elements) : elements'[i] = elements[i]]_vars

\* a remove of the key of a member of a list of two has raised
C30_Witness ==
    /\ op = "remove"
    /\ key = "nin"
    /\ raised = EduIDUserDBError
    /\ Len(elements) = 2
    /\ elements = old_elements
====
